---- MODULE Spec2Model ----
(***************************************************************************)
(* A model of the SearchApp component                                      *)
(* (Elastic-Search/src/components/SearchApp.js): its React state, the      *)
(* cancellable fetch started by the fetch-trigger effect, the event        *)
(* handlers, the teardown effect and the page-number compaction of         *)
(* getPageNumbers.                                                         *)
(*                                                                         *)
(* One action is one JavaScript task: an event handler together with the   *)
(* render and the passive effect it causes, or the continuation of one     *)
(* fetchResults call after its awaits settle.  The two awaits of           *)
(* fetchResults (fetch, response.json) write nothing between them, so a    *)
(* call is "pending" from its issue until its continuation runs.           *)
(*                                                                         *)
(* fetch is given the controller's signal: once that signal is aborted,    *)
(* a pending fetch (or a pending read of its body) rejects with an         *)
(* AbortError, and with nothing else.                                      *)
(***************************************************************************)
EXTENDS Integers, Sequences, FiniteSets, TLC

VARIABLES
    query,              \* useState('')      line 7
    results,            \* useState([])      line 8
    loading,            \* useState(false)   line 9
    yearFrom,           \* useState('')      line 10
    yearTo,             \* useState('')      line 11
    court,              \* useState('')      line 12
    currentPage,        \* useState(1)       line 13
    totalResults,       \* useState(0)       line 14
    hasSearched,        \* useState(false)   line 15
    sortOrder,          \* useState('desc')  line 18
    abortControllerRef, \* useRef(null), line 20: 0 is null, f > 0 the controller of call f
    aborted,            \* the controllers whose signal.aborted is true
    status,             \* per fetchResults call: "idle", "pending" or "settled"
    mounted,            \* FALSE once the teardown effect has run
    lastAct,            \* what the last task did (history)
    argCurrentPage,     \* getPageNumbers alone: the currentPage it reads
    argTotalPages,      \* getPageNumbers alone: the totalPages it reads
    pageNumbers,        \* getPageNumbers alone: what it returned
    pdfUrl,             \* useState(null)    line 17
    pdfStatus,          \* per handlePdfView call: "idle", "pending" or "settled"
    pdfAlerts,          \* how many times alert('PDF not found') was shown
    lastPdf             \* what the last task of handlePdfView did (history)

appVars == <<query, results, loading, yearFrom, yearTo, court, currentPage,
             totalResults, hasSearched, sortOrder, abortControllerRef, aborted,
             status, mounted, lastAct>>
pageVars == <<argCurrentPage, argTotalPages, pageNumbers>>
pdfVars == <<pdfUrl, pdfStatus, pdfAlerts, lastPdf>>
vars == <<appVars, pageVars, pdfVars>>

(***************************************************************************)
(* Bounds                                                                  *)
(***************************************************************************)
\* fetchResults calls in one run
MaxFetches == 3
\* the largest totalPages a response of the search service gives
MaxPages == 2
\* the largest totalPages getPageNumbers is applied to on its own
MaxTotalPages == 12
\* clicks on "View PDF" in one run
MaxPdfClicks == 3

Fetches == 1..MaxFetches

(***************************************************************************)
(* Inputs                                                                  *)
(***************************************************************************)
\* Texts of the search box, as sequences of characters.
QueryTexts == {<<>>, <<" ">>, <<"a">>, <<"a", " ">>}
YearFromValues == {"", "2010"}
YearToValues == {"", "2020"}
\* the <option>s of the court select, lines 239-241
CourtValues == {"", "SC", "HC"}
\* the <option>s of the sort select, lines 256-257
SortValues == {"desc", "asc"}
\* the result lists a response carries
ResultLists == {<<>>, <<1>>}

resultsPerPage == 10

\* An optional field of the response body is a set: empty when absent.
ResponseTotals == {{}} \cup {{t} : t \in {n \in 0..(resultsPerPage * MaxPages) : n % 5 = 0}}
ResponseResults == {{}} \cup {{r} : r \in ResultLists}
Responses == [results : ResponseResults, total : ResponseTotals]

\* the rejections of fetch (TypeError) and of response.json (SyntaxError)
FailureNames == {"TypeError", "SyntaxError"}

(***************************************************************************)
(* Helpers                                                                 *)
(***************************************************************************)
RECURSIVE StripLeft(_)
StripLeft(s) == IF s # <<>> /\ Head(s) = " " THEN StripLeft(Tail(s)) ELSE s

RECURSIVE StripRight(_)
StripRight(s) ==
    IF s # <<>> /\ s[Len(s)] = " " THEN StripRight(SubSeq(s, 1, Len(s) - 1)) ELSE s

\* String.prototype.trim
Trim(s) == StripRight(StripLeft(s))

\* !newQuery.trim(), line 81, and its negation query.trim(), line 90
IsBlank(s) == Trim(s) = <<>>

\* Math.ceil(totalResults / resultsPerPage), line 24
TotalPages(total) == (total + resultsPerPage - 1) \div resultsPerPage

\* data.results || [] (a list is never falsy)
ResultsOrEmpty(field) == IF field = {} THEN <<>> ELSE CHOOSE r \in field : TRUE

\* data.total || 0
TotalOrZero(field) == IF field = {} THEN 0 ELSE CHOOSE t \in field : TRUE

\* lastAct: the handler that ran (op); for a continuation of fetchResults the call
\* it belongs to (fetch) and how its awaits settled (outcome); the call the task
\* issued and the page parameter it carries (issued, page); whether the task called
\* setResults/setTotalResults, and which setLoading it called.
NoAct == [op |-> "none", fetch |-> 0, outcome |-> "", issued |-> 0, page |-> 0,
          wroteResults |-> FALSE, setLoading |-> "none"]

NextFetch == Cardinality({f \in Fetches : status[f] # "idle"}) + 1

(***************************************************************************)
(* getPageNumbers, lines 124-153                                           *)
(***************************************************************************)
delta == 2

\* the '...' entry of line 145; page numbers are >= 1
Dots == 0

\* the condition of lines 131-135
InRange(i, cp, tp) == i = 1 \/ i = tp \/ (i >= cp - delta /\ i <= cp + delta)

\* the first loop, lines 130-138, from i on
RECURSIVE RangeFrom(_, _, _)
RangeFrom(i, cp, tp) ==
    IF i > tp THEN <<>>
    ELSE (IF InRange(i, cp, tp) THEN <<i>> ELSE <<>>) \o RangeFrom(i + 1, cp, tp)

\* Separator without the fill of line 143: a gap of 2 gets the marker too
SeparatorNoFill(l, i) == IF l # 0 /\ i - l # 1 THEN <<Dots>> ELSE <<>>

\* Separator without the marker of line 145
SeparatorNoMarker(l, i) == IF l # 0 /\ i - l = 2 THEN <<l + 1>> ELSE <<>>

\* lines 141-147: what is pushed before page i when the page before it was l
\* (l = 0 stands for the undefined l of the first iteration, falsy like it)
Separator(l, i) ==
    IF l # 0
    THEN IF i - l = 2 THEN <<l + 1>>
         ELSE IF i - l # 1 THEN <<Dots>>
         ELSE <<>>
    ELSE <<>>

\* the second loop, lines 140-150, from the k-th entry of range on
RECURSIVE WithDotsFrom(_, _, _)
WithDotsFrom(range, k, l) ==
    IF k > Len(range) THEN <<>>
    ELSE Separator(l, range[k]) \o <<range[k]>> \o WithDotsFrom(range, k + 1, range[k])

GetPageNumbers(cp, tp) == WithDotsFrom(RangeFrom(1, cp, tp), 1, 0)

(***************************************************************************)
(* fetchResults, lines 26-69                                               *)
(***************************************************************************)
\* fetchResults without the abort of lines 28-30
AbortPreviousSkipped(ab, ref) == ab

\* lines 28-30
AbortPrevious(ab, ref) == IF ref # 0 THEN ab \cup {ref} ELSE ab

\* line 54: !abortControllerRef.current.signal.aborted
MayPublish(ab, ref) == ref \notin ab

\* line 59 taking every rejection for a cancellation
IsCancellationAlways(name) == TRUE

\* line 59 taking no rejection for a cancellation
IsCancellationNever(name) == FALSE

\* line 59, negated: error.name === 'AbortError'
IsCancellation(name) == name = "AbortError"

\* line 65 with the test inverted
MayClearLoadingInverted(ab, ref) == ref # 0 /\ ref \in ab

\* line 65: !abortControllerRef.current?.signal.aborted
MayClearLoading(ab, ref) == ref = 0 \/ ref \notin ab

\* lines 28-50: up to the first await
FetchResultsIssue ==
    /\ NextFetch <= MaxFetches
    /\ aborted' = AbortPrevious(aborted, abortControllerRef)
    /\ abortControllerRef' = NextFetch
    /\ loading' = TRUE
    /\ status' = [status EXCEPT ![NextFetch] = "pending"]

\* lines 52-68: the continuation of call f once its awaits settled, with the body
\* data (kind "ok") or with the rejection name (kind "error")
FetchResultsResume(f, kind, name, data) ==
    LET publish == kind = "ok" /\ MayPublish(aborted, abortControllerRef)
        clear == kind = "error" /\ ~IsCancellation(name)
        done == MayClearLoading(aborted, abortControllerRef)
    IN  /\ status[f] = "pending"
        /\ status' = [status EXCEPT ![f] = "settled"]
        /\ results' = IF publish THEN ResultsOrEmpty(data.results)
                      ELSE IF clear THEN <<>> ELSE results
        /\ totalResults' = IF publish THEN TotalOrZero(data.total)
                           ELSE IF clear THEN 0 ELSE totalResults
        /\ loading' = IF done THEN FALSE ELSE loading
        /\ lastAct' = [op |-> "fetchResults", fetch |-> f,
                       outcome |-> IF kind = "ok" THEN "ok" ELSE name,
                       issued |-> 0, page |-> 0,
                       wroteResults |-> publish \/ clear,
                       setLoading |-> IF done THEN "false" ELSE "none"]
        /\ UNCHANGED <<query, yearFrom, yearTo, court, currentPage, hasSearched,
                       sortOrder, abortControllerRef, aborted, mounted, pageVars,
                       pdfVars>>

NoData == [results |-> {}, total |-> {}]

\* the response arrives and decodes; the signal of the call was not aborted
FetchSucceeds ==
    \E f \in Fetches, data \in Responses :
        /\ f \notin aborted
        /\ FetchResultsResume(f, "ok", "", data)

\* the network call or the decoding fails; the signal of the call was not aborted
FetchFails ==
    \E f \in Fetches, name \in FailureNames :
        /\ f \notin aborted
        /\ FetchResultsResume(f, "error", name, NoData)

\* the signal of the call was aborted: its await rejects with an AbortError
FetchCancelled ==
    \E f \in Fetches :
        /\ f \in aborted
        /\ FetchResultsResume(f, "error", "AbortError", NoData)

(***************************************************************************)
(* The fetch-trigger effect, lines 71-75, and the event handlers           *)
(***************************************************************************)
\* the effect without the test of line 72
EffectFiresAlways(hs) == TRUE

\* line 72
EffectFires(hs) == hs

\* One handler's task: the state it sets (q .. tot; wrote says whether it called
\* setResults/setTotalResults), the render, and the effect of lines 71-75, which
\* runs when one of its dependencies changed.
Commit(op, q, cp, yf, yt, ct, hs, so, res, tot, wrote) ==
    LET changed == <<q, cp, yf, yt, ct, hs, so>> #
                   <<query, currentPage, yearFrom, yearTo, court, hasSearched, sortOrder>>
        fires == changed /\ EffectFires(hs)
    IN  /\ mounted
        /\ query' = q
        /\ currentPage' = cp
        /\ yearFrom' = yf
        /\ yearTo' = yt
        /\ court' = ct
        /\ hasSearched' = hs
        /\ sortOrder' = so
        /\ results' = res
        /\ totalResults' = tot
        /\ IF fires
           THEN /\ FetchResultsIssue
                /\ lastAct' = [op |-> op, fetch |-> 0, outcome |-> "",
                               issued |-> NextFetch, page |-> cp,
                               wroteResults |-> wrote, setLoading |-> "true"]
           ELSE /\ UNCHANGED <<aborted, abortControllerRef, loading, status>>
                /\ lastAct' = [op |-> op, fetch |-> 0, outcome |-> "",
                               issued |-> 0, page |-> 0,
                               wroteResults |-> wrote, setLoading |-> "none"]
        /\ UNCHANGED <<mounted, pageVars, pdfVars>>

\* lines 77-86
HandleQueryChange ==
    \E newQuery \in QueryTexts \ {query} :
        IF IsBlank(newQuery)
        THEN Commit("handleQueryChange", newQuery, currentPage, yearFrom, yearTo,
                    court, FALSE, sortOrder, <<>>, 0, TRUE)
        ELSE Commit("handleQueryChange", newQuery, currentPage, yearFrom, yearTo,
                    court, hasSearched, sortOrder, results, totalResults, FALSE)

\* handleSearch without the setCurrentPage(1) of line 91
HandleSearchKeepsPage ==
    IF ~IsBlank(query)
    THEN Commit("handleSearch", query, currentPage, yearFrom, yearTo, court, TRUE,
                sortOrder, results, totalResults, FALSE)
    ELSE Commit("handleSearch", query, currentPage, yearFrom, yearTo, court,
                hasSearched, sortOrder, results, totalResults, FALSE)

\* lines 88-94
HandleSearch ==
    IF ~IsBlank(query)
    THEN Commit("handleSearch", query, 1, yearFrom, yearTo, court, TRUE, sortOrder,
                results, totalResults, FALSE)
    ELSE Commit("handleSearch", query, currentPage, yearFrom, yearTo, court,
                hasSearched, sortOrder, results, totalResults, FALSE)

\* lines 107-110, with the setters of lines 214 and 223
HandleYearChange ==
    \/ \E v \in YearFromValues \ {yearFrom} :
           Commit("handleYearChange", query, 1, v, yearTo, court, hasSearched,
                  sortOrder, results, totalResults, FALSE)
    \/ \E v \in YearToValues \ {yearTo} :
           Commit("handleYearChange", query, 1, yearFrom, v, court, hasSearched,
                  sortOrder, results, totalResults, FALSE)

\* lines 112-115
HandleCourtChange ==
    \E v \in CourtValues \ {court} :
        Commit("handleCourtChange", query, 1, yearFrom, yearTo, v, hasSearched,
               sortOrder, results, totalResults, FALSE)

\* the onChange of the sort select, lines 250-253
HandleSortChange ==
    \E v \in SortValues \ {sortOrder} :
        Commit("handleSortChange", query, 1, yearFrom, yearTo, court, hasSearched,
               v, results, totalResults, FALSE)

\* line 118
PageInRange(newPage, tp) == newPage >= 1 /\ newPage <= tp

\* The pages the pagination controls of lines 324-359 can pass to handlePageChange:
\* the controls are rendered when totalPages > 0 and every button is disabled
\* while loading; "previous" is disabled on page 1, "next" on the last page.
PageClicks ==
    LET tp == TotalPages(totalResults)
        nums == GetPageNumbers(currentPage, tp)
    IN  IF tp > 0 /\ ~loading
        THEN {currentPage - 1 : x \in {y \in {1} : currentPage # 1}}
             \cup {currentPage + 1 : x \in {y \in {1} : currentPage # tp}}
             \cup {nums[k] : k \in {j \in DOMAIN nums : nums[j] # Dots}}
        ELSE {}

\* lines 117-122
HandlePageChange ==
    \E newPage \in PageClicks :
        IF PageInRange(newPage, TotalPages(totalResults))
        THEN Commit("handlePageChange", query, newPage, yearFrom, yearTo, court,
                    hasSearched, sortOrder, results, totalResults, FALSE)
        ELSE Commit("handlePageChange", query, currentPage, yearFrom, yearTo, court,
                    hasSearched, sortOrder, results, totalResults, FALSE)

\* the cleanup without the abort of lines 157-159
TeardownAbortSkipped(ab, ref) == ab

\* lines 157-159
TeardownAbort(ab, ref) == IF ref # 0 THEN ab \cup {ref} ELSE ab

\* the cleanup of the effect of lines 155-161
Unmount ==
    /\ mounted
    /\ mounted' = FALSE
    /\ aborted' = TeardownAbort(aborted, abortControllerRef)
    /\ lastAct' = [NoAct EXCEPT !.op = "unmount"]
    /\ UNCHANGED <<query, results, loading, yearFrom, yearTo, court, currentPage,
                   totalResults, hasSearched, sortOrder, abortControllerRef, status,
                   pageVars, pdfVars>>

(***************************************************************************)
(* handlePdfView, lines 96-105, and the PDF viewer, lines 502-521          *)
(***************************************************************************)
PdfClicks == 1..MaxPdfClicks

\* JavaScript values of pdfUrl and of data.url, written as strings: "null" is null,
\* "undefined" an absent field, "" the empty string; the others are URLs.
UrlValues == {"undefined", "null", "", "https://pdf/1", "https://pdf/2"}

\* pdfUrl && ..., line 502
Truthy(v) == v \notin {"undefined", "null", ""}

NoPdfAct == [op |-> "none", call |-> 0, setUrl |-> FALSE, alerted |-> FALSE]

NextPdfCall == Cardinality({c \in PdfClicks : pdfStatus[c] # "idle"}) + 1

\* The "View PDF" button of lines 300-307 is rendered in the result list, which
\* lines 262-275 show when not loading, after a search, with results; the button
\* needs a truthy result.id.
PdfButtons ==
    IF mounted /\ ~loading /\ hasSearched /\ results # <<>>
    THEN {results[k] : k \in {j \in DOMAIN results : results[j] # 0}}
    ELSE {}

\* lines 97-98: the click issues the one request of the call
HandlePdfViewIssue ==
    \E docId \in PdfButtons :
        /\ NextPdfCall <= MaxPdfClicks
        /\ pdfStatus' = [pdfStatus EXCEPT ![NextPdfCall] = "pending"]
        /\ lastPdf' = [op |-> "click", call |-> NextPdfCall, setUrl |-> FALSE,
                       alerted |-> FALSE]
        /\ UNCHANGED <<pdfUrl, pdfAlerts, appVars, pageVars>>

\* lines 99-100: the body decoded to an object whose url field is url;
\* the status of the response is not looked at
PdfBodyArrives ==
    \E c \in PdfClicks, url \in UrlValues :
        /\ pdfStatus[c] = "pending"
        /\ pdfStatus' = [pdfStatus EXCEPT ![c] = "settled"]
        /\ pdfUrl' = url
        /\ lastPdf' = [op |-> "settled", call |-> c, setUrl |-> TRUE, alerted |-> FALSE]
        /\ UNCHANGED <<pdfAlerts, appVars, pageVars>>

\* lines 101-104: fetch or response.json rejected, or the body was no object
PdfRequestFails ==
    \E c \in PdfClicks :
        /\ pdfStatus[c] = "pending"
        /\ pdfStatus' = [pdfStatus EXCEPT ![c] = "settled"]
        /\ pdfAlerts' = pdfAlerts + 1
        /\ lastPdf' = [op |-> "settled", call |-> c, setUrl |-> FALSE, alerted |-> TRUE]
        /\ UNCHANGED <<pdfUrl, appVars, pageVars>>

\* the close button of the viewer, line 508
ClosePdfViewer ==
    /\ mounted
    /\ Truthy(pdfUrl)
    /\ pdfUrl' = "null"
    /\ lastPdf' = [NoPdfAct EXCEPT !.op = "close"]
    /\ UNCHANGED <<pdfStatus, pdfAlerts, appVars, pageVars>>

(***************************************************************************)
(* The component                                                           *)
(***************************************************************************)
InitApp ==
    /\ query = <<>>
    /\ results = <<>>
    /\ loading = FALSE
    /\ yearFrom = ""
    /\ yearTo = ""
    /\ court = ""
    /\ currentPage = 1
    /\ totalResults = 0
    /\ hasSearched = FALSE
    /\ sortOrder = "desc"
    /\ abortControllerRef = 0
    /\ aborted = {}
    /\ status = [f \in Fetches |-> "idle"]
    /\ mounted = TRUE
    /\ lastAct = NoAct

NotCalled == [called |-> FALSE, value |-> <<>>]

InitPdf ==
    /\ pdfUrl = "null"
    /\ pdfStatus = [c \in PdfClicks |-> "idle"]
    /\ pdfAlerts = 0
    /\ lastPdf = NoPdfAct

Init ==
    /\ InitApp
    /\ argCurrentPage = 1
    /\ argTotalPages = 0
    /\ pageNumbers = NotCalled
    /\ InitPdf

Next ==
    \/ HandleQueryChange
    \/ HandleSearch
    \/ HandleYearChange
    \/ HandleCourtChange
    \/ HandleSortChange
    \/ HandlePageChange
    \/ FetchSucceeds
    \/ FetchFails
    \/ FetchCancelled
    \/ Unmount

Spec == Init /\ [][Next]_vars

(***************************************************************************)
(* getPageNumbers on its own: every currentPage and totalPages             *)
(***************************************************************************)
PagesInit ==
    /\ InitApp
    /\ argTotalPages \in (0 - 1)..MaxTotalPages
    /\ argCurrentPage \in 1..MaxTotalPages
    /\ pageNumbers = NotCalled
    /\ InitPdf

GetPageNumbersCall ==
    /\ ~pageNumbers.called
    /\ pageNumbers' = [called |-> TRUE,
                       value |-> GetPageNumbers(argCurrentPage, argTotalPages)]
    /\ UNCHANGED <<argCurrentPage, argTotalPages, appVars, pdfVars>>

PagesNext == GetPageNumbersCall

PagesSpec == PagesInit /\ [][PagesNext]_vars

(***************************************************************************)
(* handlePdfView on a rendered result list                                 *)
(***************************************************************************)
\* The component after the search for "a" was submitted and its first response,
\* one result out of five, was published.
Searched ==
    /\ query = <<"a">>
    /\ results = <<1>>
    /\ loading = FALSE
    /\ yearFrom = ""
    /\ yearTo = ""
    /\ court = ""
    /\ currentPage = 1
    /\ totalResults = 5
    /\ hasSearched = TRUE
    /\ sortOrder = "desc"
    /\ abortControllerRef = 1
    /\ aborted = {}
    /\ status = [f \in Fetches |-> IF f = 1 THEN "settled" ELSE "idle"]
    /\ mounted = TRUE
    /\ lastAct = [op |-> "fetchResults", fetch |-> 1, outcome |-> "ok", issued |-> 0,
                  page |-> 0, wroteResults |-> TRUE, setLoading |-> "false"]

PdfInit ==
    /\ Searched
    /\ argCurrentPage = 1
    /\ argTotalPages = 0
    /\ pageNumbers = NotCalled
    /\ InitPdf

PdfNext ==
    \/ HandlePdfViewIssue
    \/ PdfBodyArrives
    \/ PdfRequestFails
    \/ ClosePdfViewer

PdfSpec == PdfInit /\ [][PdfNext]_vars

(***************************************************************************)
(* Properties                                                              *)
(***************************************************************************)
\* the most recently issued fetchResults call (0: none yet)
LastIssued == NextFetch - 1

\* the last task was the continuation of a fetchResults call
Resumed == lastAct.op = "fetchResults"

InputChangeOps == {"handleQueryChange", "handleYearChange", "handleCourtChange",
                   "handleSortChange"}

\* C1: a continuation of fetchResults that writes results and totalResults, from a
\* response or from a failure, belongs to the most recently issued call; a
\* superseded call never writes them.
C1_OnlyLatestFetchPublishes ==
    (Resumed /\ lastAct.wroteResults) => lastAct.fetch = LastIssued

\* a superseded call's continuation has run after the latest call published a
\* non-empty result list, which is still in place
C1_Witness ==
    /\ Resumed
    /\ lastAct.fetch < LastIssued
    /\ status[LastIssued] = "settled"
    /\ results # <<>>

\* C2: while the component is mounted and the most recently issued call is still
\* pending and not cancelled, loading is true.
C2_LoadingWhileLatestPending ==
    (mounted /\ LastIssued > 0 /\ status[LastIssued] = "pending"
        /\ LastIssued \notin aborted) => loading

\* C3: a query change to a blank text leaves results empty, totalResults 0 and
\* hasSearched false and issues no fetch; and while hasSearched is false the only
\* task that issues a fetch is a submit of a non-blank query text.
C3_BlankQueryClearsAndSuppresses ==
    /\ []((lastAct.op = "handleQueryChange" /\ IsBlank(query)) =>
            (results = <<>> /\ totalResults = 0 /\ ~hasSearched /\ lastAct.issued = 0))
    /\ [][(~hasSearched /\ NextFetch' # NextFetch) =>
            (lastAct'.op = "handleSearch" /\ ~IsBlank(query))]_vars

\* the query text was blanked after a search had completed
C3_Witness ==
    /\ lastAct.op = "handleQueryChange"
    /\ IsBlank(query)
    /\ lastAct.wroteResults
    /\ \E f \in Fetches : status[f] = "settled"

\* C4: after a change of the query text, a year, the court or the sort order,
\* currentPage is 1 and the fetch the change issued, if any, carries page 1.
C4_InputChangeResetsPage ==
    lastAct.op \in InputChangeOps =>
        (currentPage = 1 /\ (lastAct.issued # 0 => lastAct.page = 1))

\* C5: after the continuation of the current call ran on a failure that is not a
\* cancellation, results is empty, totalResults is 0 and loading is false.
C5_FailureClears ==
    (Resumed /\ lastAct.outcome \in FailureNames /\ lastAct.fetch = LastIssued) =>
        (results = <<>> /\ totalResults = 0 /\ ~loading)

\* the current call failed while loading was shown
C5_Witness ==
    /\ Resumed
    /\ lastAct.outcome \in FailureNames
    /\ lastAct.fetch = LastIssued
    /\ lastAct.wroteResults
    /\ lastAct.setLoading = "false"

\* C6: the continuation of a cancelled call calls neither setResults nor
\* setTotalResults and leaves both as they were.
C6_CancellationKeepsResults ==
    [][(lastAct'.op = "fetchResults" /\ lastAct'.outcome = "AbortError") =>
        (~lastAct'.wroteResults /\ UNCHANGED <<results, totalResults>>)]_vars

\* a cancelled call's continuation ran and the results published before it remain
C6_Witness ==
    /\ Resumed
    /\ lastAct.outcome = "AbortError"
    /\ results # <<>>
    /\ totalResults > 0

\* C7: after teardown every pending call is cancelled, and no task calls
\* setResults, setTotalResults or setLoading.
C7_NoPublishAfterTeardown ==
    ~mounted =>
        /\ \A f \in Fetches : status[f] = "pending" => f \in aborted
        /\ ~lastAct.wroteResults
        /\ lastAct.setLoading = "none"

\* the call that was pending at teardown has delivered after it
C7_Witness ==
    /\ ~mounted
    /\ Resumed
    /\ lastAct.fetch = LastIssued

\* The sequence the specification defines for 1 <= cp <= tp: pages 1, tp and those
\* within 2 of cp, a page that lies alone between two of them, in increasing
\* order, and one marker in each remaining gap.
Included(cp, tp) == {1, tp} \cup {i \in 1..tp : i >= cp - 2 /\ i <= cp + 2}

Listed(cp, tp) ==
    Included(cp, tp) \cup
    {i \in 1..tp : (i - 1) \in Included(cp, tp) /\ (i + 1) \in Included(cp, tp)}

IsCompaction(v, cp, tp) ==
    LET at == {k \in DOMAIN v : v[k] # Dots}
    IN  /\ {v[k] : k \in at} = Listed(cp, tp)
        /\ \A j, k \in at : j < k => v[j] < v[k]
        /\ \A k \in DOMAIN v :
               v[k] = Dots =>
                   /\ k > 1
                   /\ k < Len(v)
                   /\ v[k - 1] # Dots
                   /\ v[k + 1] # Dots
                   /\ v[k + 1] - v[k - 1] > 2
        /\ \A k \in 1..(Len(v) - 1) :
               (v[k] # Dots /\ v[k + 1] # Dots) => v[k + 1] = v[k] + 1

\* C8: getPageNumbers returns the empty sequence for totalPages <= 0 and, for
\* 1 <= currentPage <= totalPages, the sequence the specification defines.
C8_PageNumbersAsSpecified ==
    pageNumbers.called =>
        IF argTotalPages <= 0
        THEN pageNumbers.value = <<>>
        ELSE argCurrentPage <= argTotalPages =>
                 IsCompaction(pageNumbers.value, argCurrentPage, argTotalPages)

\* a call whose result holds a marker and a filled page
C8_Witness ==
    /\ pageNumbers.called
    /\ argCurrentPage <= argTotalPages
    /\ \E k \in DOMAIN pageNumbers.value : pageNumbers.value[k] = Dots
    /\ Listed(argCurrentPage, argTotalPages) # Included(argCurrentPage, argTotalPages)

\* C9 as stated: getPageNumbers for currentPage 5, totalPages 10 is
\* 1, 2, 3, 4, 5, 6, 7, 10 without a marker.
C9_AsStated ==
    (pageNumbers.called /\ argCurrentPage = 5 /\ argTotalPages = 10) =>
        pageNumbers.value = <<1, 2, 3, 4, 5, 6, 7, 10>>

\* C9 amended: getPageNumbers for currentPage 5, totalPages 10 is
\* 1, 2, 3, 4, 5, 6, 7, marker, 10.
C9_WithMarker ==
    (pageNumbers.called /\ argCurrentPage = 5 /\ argTotalPages = 10) =>
        pageNumbers.value = <<1, 2, 3, 4, 5, 6, 7, Dots, 10>>

\* getPageNumbers was called for page 5 of 10
C9_Witness ==
    /\ pageNumbers.called
    /\ argCurrentPage = 5
    /\ argTotalPages = 10
    /\ Len(pageNumbers.value) = 9

\* C10: whenever the pagination controls are rendered (totalPages > 0),
\* currentPage lies in 1..totalPages.
C10_CurrentPageInRange ==
    TotalPages(totalResults) > 0 =>
        (currentPage >= 1 /\ currentPage <= TotalPages(totalResults))

\* the React state a handler can set, and the fetch bookkeeping
searchState == <<query, results, loading, yearFrom, yearTo, court, currentPage,
                 totalResults, hasSearched, sortOrder, abortControllerRef, aborted,
                 status>>

\* C11: after a submit of a non-blank query text hasSearched is true, currentPage
\* is 1 and the fetch the submit issued, if any, carries page 1; a submit of a
\* blank query text changes no state and issues no fetch.
C11_SubmitSearches ==
    /\ []((lastAct.op = "handleSearch" /\ ~IsBlank(query)) =>
            (hasSearched /\ currentPage = 1 /\ (lastAct.issued # 0 => lastAct.page = 1)))
    /\ [][(lastAct'.op = "handleSearch" /\ IsBlank(query)) =>
            (lastAct'.issued = 0 /\ UNCHANGED searchState)]_vars

\* a submit issued the third fetch: after a search and a page change the query
\* was blanked and typed again
C11_Witness ==
    /\ lastAct.op = "handleSearch"
    /\ ~IsBlank(query)
    /\ lastAct.issued = 3
    /\ lastAct.page = 1
    /\ status[2] = "settled"

\* C13: whenever hasSearched is false, results is empty and totalResults is 0.
C13_NotSearchedMeansEmpty ==
    ~hasSearched => (results = <<>> /\ totalResults = 0)

\* C14: once the most recently issued call has resolved, by a response or by a
\* failure that is not a cancellation, loading is false, and it stays false for as
\* long as no further call is issued, whichever continuations of superseded calls
\* run before or after.
C14_LoadingClearsAfterLatest ==
    (LastIssued > 0 /\ status[LastIssued] = "settled" /\ LastIssued \notin aborted)
        => ~loading

\* the continuation of a superseded call ran after the latest call had resolved,
\* with the component still mounted
C14_Witness ==
    /\ mounted
    /\ Resumed
    /\ lastAct.outcome = "AbortError"
    /\ lastAct.fetch < LastIssued
    /\ status[LastIssued] = "settled"
    /\ LastIssued \notin aborted
    /\ \A f \in Fetches : status[f] # "pending"

\* C12: when a handlePdfView call has settled, either it set pdfUrl to a usable
\* URL, so that the viewer is open, or it showed the "PDF not found" notice.
C12_UrlOrNotice ==
    lastPdf.op = "settled" =>
        ((lastPdf.setUrl /\ Truthy(pdfUrl)) \/ lastPdf.alerted)

====
